---- MODULE Spec2Model ----
(***************************************************************************)
(* git-evtag-py: the EVTag checksum of a git repository.                   *)
(*                                                                         *)
(* Bytes and characters are one-character strings; a byte string or a text *)
(* is a sequence of them.  Three tokens stand for longer texts that the    *)
(* program only ever handles whole: LF (the newline), NUL (the zero byte)  *)
(* and FOOTER (the literal "Git-EVTag-v0-SHA512:", which has no proper     *)
(* prefix that is also a suffix, so occurrences never overlap).  An object *)
(* identifier is a text of one token.                                      *)
(***************************************************************************)
EXTENDS Integers, Sequences, FiniteSets, TLC

VARIABLES
    head,        \* the commit HEAD is at (the checkout)
    tags,        \* the tag store: name -> [target, message]
    run,         \* number of the current invocation of main
    emitted,     \* every digest line printed so far: [commit resolved, line, --rev given]
    args,        \* the parsed, validated command line of this invocation
    main,        \* main's locals: resolved_commit, in_tag, tag_evtag_csum, calc_evtag_csum
    stack,       \* the call stack: main / with / checksum_repo / checksum_tree / checksum_object
    exc,         \* the exception being propagated, or NoExc
    retval,      \* the value the last returned call handed back (checksum_object's tree id)
    csum,        \* ChecksumProcessor.csum: every byte fed to the hash, in order
    stats,       \* ChecksumProcessor.stats
    chans,       \* the GitBatchProcessor instances, in order of opening
    chlog,       \* what happened to the channels: <<"open"|"close"|"wait"|"check", channel>>
    nreq,        \* number of object requests written to any channel in this invocation
    lastfault,   \* what the backend did with the last request it answered
    out,         \* the line printed on standard output, <<>> when none
    exitcode,    \* the process's exit status, -1 while it runs
    verdict,     \* the outcome verify_tag logged, "" when none
    tagcmds,     \* number of `git tag -a` commands issued in this invocation
    msgreads,    \* number of message files read or editors run in this invocation
    codec        \* the tag-message codec applied to one message: [pc, message, in_csum, final_msg, extracted]

vars == <<head, tags, run, emitted, args, main, stack, exc, retval, csum, stats,
          chans, chlog, nreq, lastfault, out, exitcode, verdict, tagcmds, msgreads, codec>>

(***************************************************************************)
(* Bounds of the model.                                                    *)
(***************************************************************************)
\* invocations of main in one behaviour
MaxRuns == 2
\* longest base message the codec is applied to
MaxMsgLen == 6

(***************************************************************************)
(* Text helpers: Python's str methods, as the program uses them.           *)
(***************************************************************************)
LF == "LF"
NUL == "NUL"
SP == " "
FOOTER == "Git-EVTag-v0-SHA512:"

\* the literal "Git-EVTag-v0-SHA512: " of lines 88, 89, 134 and 136
Prefix == <<FOOTER, SP>>

DigitChars == <<"0", "1", "2", "3", "4", "5", "6", "7", "8", "9">>

IsSpace(c) == c \in {SP, LF}

RECURSIVE Dec(_)
\* f"{n}": the decimal text of a natural number
Dec(n) == IF n < 10 THEN <<DigitChars[n + 1]>>
          ELSE Dec(n \div 10) \o <<DigitChars[(n % 10) + 1]>>

DigitValue(c) == CHOOSE d \in 0..9 : DigitChars[d + 1] = c

RECURSIVE ParseDigits(_, _)
ParseDigits(s, acc) == IF s = <<>> THEN acc
                       ELSE ParseDigits(Tail(s), acc * 10 + DigitValue(Head(s)))

\* int(s): the value, or -1 where Python raises ValueError
ParseInt(s) == IF s # <<>> /\ \A i \in 1..Len(s) : \E d \in 1..10 : DigitChars[d] = s[i]
               THEN ParseDigits(s, 0) ELSE -1

RECURSIVE LStrip(_)
LStrip(s) == IF s # <<>> /\ IsSpace(Head(s)) THEN LStrip(Tail(s)) ELSE s

RECURSIVE RStrip(_)
RStrip(s) == IF s # <<>> /\ IsSpace(s[Len(s)]) THEN RStrip(SubSeq(s, 1, Len(s) - 1)) ELSE s

Strip(s) == LStrip(RStrip(s))

StartsWith(s, p) == Len(s) >= Len(p) /\ SubSeq(s, 1, Len(p)) = p

\* s.find(p) + 1: the place of the first occurrence of p in s, 0 when there is none
Find(s, p) == LET at == {i \in 1..(Len(s) - Len(p) + 1) : SubSeq(s, i, i + Len(p) - 1) = p}
              IN IF at = {} THEN 0 ELSE CHOOSE i \in at : \A j \in at : i <= j

Contains(s, p) == Find(s, p) # 0

\* place of the first c in s, 0 when there is none
IndexOf(s, c) == Find(s, <<c>>)

RECURSIVE SplitLines(_)
\* str.splitlines(): no empty last line after a final newline
SplitLines(s) == IF s = <<>> THEN <<>>
                 ELSE LET i == IndexOf(s, LF)
                      IN IF i = 0 THEN <<s>>
                         ELSE <<SubSeq(s, 1, i - 1)>> \o SplitLines(SubSeq(s, i + 1, Len(s)))

\* place of the first whitespace of s, Len(s) + 1 when there is none
FirstSpace(s) == LET at == {i \in 1..Len(s) : IsSpace(s[i])}
                 IN IF at = {} THEN Len(s) + 1 ELSE CHOOSE i \in at : \A j \in at : i <= j

RECURSIVE SplitWs(_, _)
\* str.split(None, maxsplit): fields separated by runs of whitespace, the last
\* field keeping the rest of the text once maxsplit splits are made
SplitWs(s, maxsplit) ==
    LET t == LStrip(s)
    IN IF t = <<>> THEN <<>>
       ELSE IF maxsplit = 0 THEN <<RStrip(t)>>
       ELSE LET e == FirstSpace(t)
            IN <<SubSeq(t, 1, e - 1)>> \o SplitWs(SubSeq(t, e, Len(t)), maxsplit - 1)

(***************************************************************************)
(* The tag-message codec.                                                  *)
(***************************************************************************)
None == [some |-> FALSE, val |-> <<>>]
Some(v) == [some |-> TRUE, val |-> v]

\* the last place `.*` matches from place `from` on, where a newline does not stop it
DotStarToNewline(s, from) ==
    LET nl == {i \in from..Len(s) : s[i] = LF}
    IN IF nl = {} THEN Len(s) ELSE (CHOOSE i \in nl : \A j \in nl : i <= j) - 1

\* the last place `.*` matches from place `from` on under flags=re.DOTALL
DotStar(s, from) == Len(s)

RECURSIVE ReSubFooter(_)
\* re.sub(r"\n?Git-EVTag-v0-SHA512: .*\n?", "", s, flags=re.DOTALL)
ReSubFooter(s) ==
    LET i == Find(s, Prefix)
    IN IF i = 0 THEN s
       ELSE LET start == IF i > 1 /\ s[i - 1] = LF THEN i - 1 ELSE i
                e     == DotStar(s, i + Len(Prefix))
                stop  == IF e < Len(s) /\ s[e + 1] = LF THEN e + 1 ELSE e
            IN SubSeq(s, 1, start - 1) \o ReSubFooter(SubSeq(s, stop + 1, Len(s)))

\* lines 134-137 of sign_tree_checksum: the message of the new tag
FinalMsg(message, in_csum) ==
    LET cleaned_msg == RStrip(ReSubFooter(message))
        footer      == <<LF, LF>> \o Prefix \o in_csum \o <<LF>>
    IN cleaned_msg \o footer

RECURSIVE ScanLines(_)
ScanLines(lines) ==
    IF lines = <<>> THEN None
    ELSE LET line == Head(lines)
         IN IF StartsWith(Strip(line), Prefix)
            THEN LET i == Find(line, Prefix)
                 IN Some(Strip(SubSeq(line, i + Len(Prefix), Len(line))))
            ELSE ScanLines(Tail(lines))

\* lines 87-90 of extract_checksum_from_tag, on the tag's contents
ExtractChecksum(contents) == ScanLines(SplitLines(contents))

(***************************************************************************)
(* Paths (pathlib): a path is absolute or relative, and joining an         *)
(* absolute path on the right discards the left one.                       *)
(***************************************************************************)
Abs(parts) == [abs |-> TRUE, parts |-> parts]
Rel(parts) == [abs |-> FALSE, parts |-> parts]

\* a / b
Join(a, b) == IF b.abs THEN b ELSE [abs |-> a.abs, parts |-> a.parts \o b.parts]

(***************************************************************************)
(* The fixed object store: a root repository and the sub-repositories      *)
(* checked out inside it.  Every repository answers for its own objects.   *)
(***************************************************************************)
\* Path(args.repo).resolve()
ROOT == Abs(<<"R">>)
SUB1 == Abs(<<"R", "d", "s">>)
SUB2 == Abs(<<"R", "d", "s", "n">>)
SUBM == Abs(<<"R", "m">>)

Commits == {"c1", "c2", "c3", "c4", "c5"}

TreeLine(tree) == <<"t", "r", "e", "e", SP, tree, LF>>
CommitBody(tree) == TreeLine(tree) \o <<"a", LF, LF, "m", LF>>

Obj(kind, content) == [kind |-> kind, content |-> content]

Entry(type, id, name) == [mode |-> "100644", type |-> type, id |-> <<id>>, name |-> name]

\* the objects `git cat-file --batch` run in `repo` can serve
Objects(repo) ==
    IF repo = ROOT THEN
        [ c1 |-> Obj("commit", CommitBody("t1")),
          c2 |-> Obj("commit", CommitBody("t3")),
          c3 |-> Obj("commit", CommitBody("t4")),
          c4 |-> Obj("commit", <<"a", LF, LF, "m", LF>>),
          c5 |-> Obj("commit", CommitBody("t5")),
          t5 |-> Obj("tree", <<"h", NUL, "b2">>),
          t1 |-> Obj("tree", <<"f", NUL, "b1", "d", NUL, "t2", "g", NUL, "b1">>),
          t2 |-> Obj("tree", <<"h", NUL, "b2", LF, "s", NUL, "s1">>),
          t3 |-> Obj("tree", <<"h", NUL, "b2", "m", NUL, "s2">>),
          t4 |-> Obj("tree", <<"f", NUL, "b1", "w", NUL, "x1", "h", NUL, "b2">>),
          b1 |-> Obj("blob", <<"h", "i", LF>>),
          b2 |-> Obj("blob", <<>>) ]
    ELSE IF repo = SUB1 THEN
        [ s1 |-> Obj("commit", CommitBody("t9")),
          t9 |-> Obj("tree", <<"x", NUL, "b3", "n", NUL, "s3">>),
          b3 |-> Obj("blob", <<"0", "1", "2", "3", "4", LF, "6", "7", "8", "9", LF>>) ]
    ELSE IF repo = SUB2 THEN
        [ s3 |-> Obj("commit", CommitBody("t8")),
          t8 |-> Obj("tree", <<"y", NUL, "b1">>),
          b1 |-> Obj("blob", <<"h", "i", LF>>) ]
    ELSE IF repo = SUBM THEN
        [ s2 |-> Obj("commit", <<"t", "r", "e", "e", LF, "m", LF>>) ]
    ELSE << >>

\* the lines `git ls-tree <id>` run in `repo` prints, already split in fields
Listing(repo, id) ==
    IF repo = ROOT /\ id = <<"t1">> THEN
        <<Entry("blob", "b1", "f"), Entry("tree", "t2", "d"), Entry("blob", "b1", "g")>>
    ELSE IF repo = ROOT /\ id = <<"t2">> THEN
        <<Entry("blob", "b2", "h"), Entry("commit", "s1", "s")>>
    ELSE IF repo = ROOT /\ id = <<"t3">> THEN
        <<Entry("blob", "b2", "h"), Entry("commit", "s2", "m")>>
    ELSE IF repo = ROOT /\ id = <<"t4">> THEN
        <<Entry("blob", "b1", "f"), Entry("tag", "x1", "w"), Entry("blob", "b2", "h")>>
    ELSE IF repo = ROOT /\ id = <<"t5">> THEN
        <<Entry("blob", "b2", "h")>>
    ELSE IF repo = SUB1 /\ id = <<"t9">> THEN
        <<Entry("blob", "b3", "x"), Entry("commit", "s3", "n")>>
    ELSE IF repo = SUB2 /\ id = <<"t8">> THEN
        <<Entry("blob", "b1", "y")>>
    ELSE << >>

HasObject(repo, id) == Len(id) = 1 /\ id[1] \in DOMAIN Objects(repo)

Ascii(kind) ==
    CASE kind = "commit" -> <<"c", "o", "m", "m", "i", "t">>
      [] kind = "tree"   -> <<"t", "r", "e", "e">>
      [] kind = "blob"   -> <<"b", "l", "o", "b">>

Kinds == {"commit", "tree", "blob"}

(***************************************************************************)
(* GitBatchProcessor: one `git cat-file --batch` process and its pipes.    *)
(***************************************************************************)
NoExc == "none"

\* __enter__: the process is spawned in `repo`, both pipes empty
Channel(repo) == [repo |-> repo, released |-> FALSE, stdin |-> <<>>, stdout |-> <<>>]

MISSING == <<"m", "i", "s", "s", "i", "n", "g">>

Faults == {"ok", "missing", "malformed", "extra", "short"}

\* what the backend process writes for the request line `req` it has read;
\* `fault` is what goes wrong in the process, "ok" for nothing
Response(repo, req, fault) ==
    LET id == SubSeq(req, 1, Len(req) - 1)
    IN IF fault = "missing" \/ ~HasObject(repo, id)
       THEN id \o <<SP>> \o MISSING \o <<LF>>
       ELSE LET o   == Objects(repo)[id[1]]
                len == Dec(Len(o.content))
            IN CASE fault = "ok" ->
                      id \o <<SP>> \o Ascii(o.kind) \o <<SP>> \o len \o <<LF>> \o o.content \o <<LF>>
                 [] fault = "malformed" ->
                      id \o <<SP>> \o Ascii(o.kind) \o <<LF>> \o o.content \o <<LF>>
                 [] fault = "extra" ->
                      id \o <<SP>> \o Ascii(o.kind) \o <<SP>> \o len \o <<SP, "x", LF>> \o o.content \o <<LF>>
                 [] fault = "short" ->
                      id \o <<SP>> \o Ascii(o.kind) \o <<SP>> \o len \o <<LF>>
                         \o SubSeq(o.content, 1, Len(o.content) - 1)

\* the bytes left when the separator after the n content bytes stays unread
AfterContent(after, n) == SubSeq(after, n + 1, Len(after))

\* self._stdout.read(1), line 243: the bytes left after the n content bytes
\* and one more byte have been read
AfterSeparator(after, n) == SubSeq(after, n + 2, Len(after))

\* a length check that accepts whatever was read
ShortReadIgnored(content, obj_len) == FALSE

\* len(content) != obj_len, line 240
ShortRead(content, obj_len) == Len(content) # obj_len

\* get_object, lines 228-245, on the bytes waiting in the process's output:
\* the error raised ("" for none), the parsed fields and the bytes left unread
GetObject(stdout) ==
    LET nl     == IndexOf(stdout, LF)
        eol    == IF nl = 0 THEN Len(stdout) ELSE nl
        header == Strip(SubSeq(stdout, 1, eol))
        after  == SubSeq(stdout, eol + 1, Len(stdout))
        parts  == SplitWs(header, 2)
        fail(e, rest) == [err |-> e, obj_type |-> <<>>, obj_len |-> 0, content |-> <<>>, rest |-> rest]
    IN IF Contains(header, <<SP>> \o MISSING) THEN fail("NotFound", after)
       ELSE IF Len(parts) # 3 THEN fail("MalformedHeader", after)
       ELSE LET obj_len == ParseInt(parts[3])
            IN IF obj_len < 0 THEN fail("BadLength", after)
               ELSE LET n       == IF obj_len <= Len(after) THEN obj_len ELSE Len(after)
                        content == SubSeq(after, 1, n)
                    IN IF ShortRead(content, obj_len)
                       THEN fail("ShortRead", SubSeq(after, n + 1, Len(after)))
                       ELSE [err |-> "", obj_type |-> parts[2], obj_len |-> obj_len,
                             content |-> content,
                             rest |-> AfterSeparator(after, n)]

FetchErrors == {"NotFound", "MalformedHeader", "BadLength", "ShortRead"}

(***************************************************************************)
(* ChecksumProcessor.                                                      *)
(***************************************************************************)
StatKeys == {"commit", "tree", "blob", "commitbytes", "treebytes", "blobbytes"}

\* __init__, lines 161-170
NewStats == [k \in StatKeys |-> 0]

\* kind + "bytes"
BytesKey(kind) ==
    CASE kind = "commit" -> "commitbytes"
      [] kind = "tree"   -> "treebytes"
      [] kind = "blob"   -> "blobbytes"

\* the kind a decoded type names, "" when it is no key of stats
KindName(obj_type) ==
    IF \E k \in Kinds : Ascii(k) = obj_type
    THEN CHOOSE k \in Kinds : Ascii(k) = obj_type ELSE ""

\* update, lines 172-176, on an accumulator [csum, stats]
Update(acc, kind, data) ==
    [csum |-> acc.csum \o data,
     stats |-> [acc.stats EXCEPT ![BytesKey(kind)] = @ + Len(data)]]

\* increment, lines 178-179
Increment(acc, kind) == [acc EXCEPT !.stats[kind] = @ + 1]

\* get_digest: SHA-512 is collision free here, the hex digest is one token
\* that names the whole byte sequence hashed
GetDigest(bytes) == <<ToString(bytes)>>

\* buf = f"{obj_type} {obj_len}\0", line 259, fed without the terminating zero byte
HeaderBufNoNul(obj_type, obj_len) == obj_type \o <<SP>> \o Dec(obj_len)

\* buf = f"{obj_type} {obj_len}\0", line 259
HeaderBuf(obj_type, obj_len) == obj_type \o <<SP>> \o Dec(obj_len) \o <<NUL>>

\* checksum_object, lines 259-274, once get_object has returned r: the
\* accumulator after it, the error raised ("" for none) and the tree id returned
ChecksumFetched(acc, r) ==
    LET kind  == KindName(r.obj_type)
        buf   == HeaderBuf(r.obj_type, r.obj_len)
        fed   == [acc EXCEPT !.csum = @ \o buf]
    IN IF kind = "" THEN [acc |-> fed, err |-> "KeyError", tree |-> None]
       ELSE LET a1    == Increment(Update(acc, kind, buf), kind)
                nl    == IndexOf(r.content, LF)
                line0 == IF nl = 0 THEN r.content ELSE SubSeq(r.content, 1, nl - 1)
                words == SplitWs(line0, 1)
            IN IF kind = "commit" /\ ~StartsWith(line0, <<"t", "r", "e", "e", SP>>)
               THEN [acc |-> a1, err |-> "MalformedCommit", tree |-> None]
               ELSE IF kind = "commit" /\ Len(words) < 2
               THEN [acc |-> a1, err |-> "IndexError", tree |-> None]
               ELSE [acc |-> Update(a1, kind, r.content), err |-> "",
                     tree |-> IF kind = "commit" THEN Some(Strip(words[2])) ELSE None]

(***************************************************************************)
(* The call stack.  A frame is one active call (or `with` block); pc is    *)
(* the place the call resumes at when its callee returns.                  *)
(***************************************************************************)
Frame(fn, pc, repo, path, ch, id) ==
    [fn |-> fn, pc |-> pc, repo |-> repo, path |-> path, ch |-> ch, id |-> id,
     entries |-> <<>>, rc |-> 0, idx |-> 0]

MainFrame(pc) == Frame("main", pc, ROOT, ROOT, 0, <<>>)

Top == stack[Len(stack)]

Pop == SubSeq(stack, 1, Len(stack) - 1)

\* the stack with its top frame changed to f and the frames fs pushed on it
Call(f, fs) == Append(Pop, f) \o fs

Running(fn, pc) == /\ exc = NoExc
                   /\ exitcode = -1
                   /\ stack # <<>>
                   /\ Top.fn = fn
                   /\ Top.pc = pc

\* an __exit__ that leaves the process and its pipes as they are
NotReleased(cs, ch) == cs

\* __exit__, lines 212-215: the input is closed and the process awaited
Released(cs, ch) == [cs EXCEPT ![ch].released = TRUE]

ReleaseLog(log, ch) == log \o <<<<"close", ch>>, <<"wait", ch>>, <<"check", ch>>>>

(***************************************************************************)
(* The command line and the references it names.                           *)
(***************************************************************************)
TagNames == {"v0", "v1", "v2"}

HeadChoices == {"c1", "c5"}

NoFile == [some |-> FALSE, val |-> <<>>]

SignMsgs == { <<"x">>, <<"x", LF, FOOTER, SP, "d", LF, "y">> }

Args(mode, rev, tag, msg, file) ==
    [mode |-> mode, rev |-> rev, tag |-> tag, tag_message |-> msg, tag_message_file |-> file]

\* the command lines validate_args accepts (lines 360-375)
ArgSet ==
    {Args("print", rev, "", <<>>, NoFile) : rev \in {"", "v1"} \cup Commits}
    \cup {Args("sign", "", t, m, NoFile) : t \in {"v1", "v2"}, m \in {<<"x">>, <<>>}}
    \cup {Args("sign", "", t, <<>>, Some(m)) : t \in {"v1", "v2"}, m \in SignMsgs \ {<<"x">>}}
    \cup {Args("verify", "", t, <<>>, NoFile) : t \in TagNames}

\* ensure_git_rev, lines 63-73: `git rev-list -n 1 <ref>`, "" where git fails
EnsureGitRev(ref) ==
    IF ref = "HEAD" THEN head
    ELSE IF ref \in DOMAIN tags THEN tags[ref].target
    ELSE IF ref \in Commits THEN ref
    ELSE ""

InitTags ==
    [t \in {"v0", "v1"} |->
        IF t = "v0" THEN [target |-> "c1", message |-> <<"x", LF>>]
        ELSE [target |-> "c1", message |-> <<"x", LF, LF, FOOTER, SP, "d", LF>>]]

IdleCodec == [pc |-> "idle", message |-> <<>>, in_csum |-> <<>>, final_msg |-> <<>>,
              extracted |-> None]

NewMain == [resolved_commit |-> "", in_tag |-> "", tag_evtag_csum |-> None,
            calc_evtag_csum |-> <<>>, sig |-> FALSE]

\* the state a fresh process starts main in
Fresh == /\ main = NewMain
         /\ stack = <<MainFrame("start")>>
         /\ exc = NoExc
         /\ retval = None
         /\ csum = <<>>
         /\ stats = NewStats
         /\ chans = <<>>
         /\ chlog = <<>>
         /\ nreq = 0
         /\ lastfault = "ok"
         /\ out = <<>>
         /\ exitcode = -1
         /\ verdict = ""
         /\ tagcmds = 0
         /\ msgreads = 0

Init == /\ head \in HeadChoices
        /\ tags = InitTags
        /\ run = 1
        /\ emitted = {}
        /\ args \in ArgSet
        /\ codec = IdleCodec
        /\ Fresh

(***************************************************************************)
(* main, lines 414-448.                                                    *)
(***************************************************************************)
Truthy(opt) == opt.some /\ opt.val # <<>>

walkVars == <<csum, stats, chans, chlog, nreq, lastfault, retval>>
repoVars == <<head, tags, run, emitted, args, codec>>
sideVars == <<out, verdict, tagcmds, msgreads>>

\* lines 414-438: the commit to checksum and, under --verify, the stored digest
MainResolve ==
    /\ Running("main", "start")
    /\ LET verify == args.mode = "verify"
           first  == IF args.rev = "" THEN EnsureGitRev("HEAD") ELSE EnsureGitRev(args.rev)
           commit == IF verify THEN EnsureGitRev(args.tag) ELSE first
           stored == IF verify /\ args.tag \in DOMAIN tags
                     THEN ExtractChecksum(tags[args.tag].message) ELSE None
           locals == [NewMain EXCEPT !.resolved_commit = commit, !.in_tag = args.tag,
                                     !.tag_evtag_csum = stored]
       IN IF first = "" \/ commit = ""
          THEN exc' = "GitFailed" /\ UNCHANGED <<main, stack, exitcode>>
          ELSE IF verify /\ ~Truthy(stored)
          THEN main' = locals /\ stack' = <<>> /\ exitcode' = 1 /\ exc' = exc
          ELSE main' = locals /\ stack' = <<MainFrame("checksum")>> /\ UNCHANGED <<exc, exitcode>>
    /\ UNCHANGED <<walkVars, repoVars, sideVars>>

\* the walk started at the commit checked out
RootIdOfHead == <<head>>

\* the obj_id main hands to checksum_repo, line 445
RootId == <<main.resolved_commit>>

\* lines 440-445: a new accumulator, the root channel, checksum_repo on the commit
MainChecksum ==
    /\ Running("main", "checksum")
    /\ LET ch == Len(chans) + 1
       IN /\ chans' = Append(chans, Channel(ROOT))
          /\ chlog' = Append(chlog, <<"open", ch>>)
          /\ stack' = <<MainFrame("emit"),
                        Frame("with", "body", ROOT, ROOT, ch, <<>>),
                        Frame("checksum_repo", "start", ROOT, ROOT, ch, RootId)>>
    /\ csum' = <<>>
    /\ stats' = NewStats
    /\ UNCHANGED <<main, exc, retval, nreq, lastfault, exitcode, repoVars, sideVars>>

(***************************************************************************)
(* GitProcessor.checksum_repo, lines 312-317.                              *)
(***************************************************************************)
ObjectCall(f) == Frame("checksum_object", "write", f.repo, f.path, f.ch, f.id)

ChecksumRepoObject ==
    /\ Running("checksum_repo", "start")
    /\ stack' = Call([Top EXCEPT !.pc = "obj"], <<ObjectCall(Top)>>)
    /\ UNCHANGED <<main, exc, exitcode, walkVars, repoVars, sideVars>>

ChecksumRepoTree ==
    /\ Running("checksum_repo", "obj")
    /\ stack' = IF Truthy(retval)
                THEN Call([Top EXCEPT !.pc = "tree"],
                          <<Frame("checksum_tree", "start", Top.repo, Top.path, Top.ch, retval.val)>>)
                ELSE Pop
    /\ UNCHANGED <<main, exc, exitcode, walkVars, repoVars, sideVars>>

ChecksumRepoReturn ==
    /\ Running("checksum_repo", "tree")
    /\ stack' = Pop
    /\ UNCHANGED <<main, exc, exitcode, walkVars, repoVars, sideVars>>

(***************************************************************************)
(* GitProcessor.checksum_object with GitBatchProcessor.get_object.         *)
(***************************************************************************)
\* lines 254-255 and 222-226: the request is written and flushed
ChecksumObjectWrite ==
    /\ Running("checksum_object", "write")
    /\ IF Top.id = <<>>
       THEN exc' = "NoObjectId" /\ UNCHANGED <<stack, chans, nreq>>
       ELSE /\ chans' = [chans EXCEPT ![Top.ch].stdin = @ \o Top.id \o <<LF>>]
            /\ nreq' = nreq + 1
            /\ stack' = Call([Top EXCEPT !.pc = "read"], <<>>)
            /\ exc' = exc
    /\ UNCHANGED <<main, exitcode, csum, stats, chlog, lastfault, retval, repoVars, sideVars>>

\* the backend process reads the request line and writes its response
BackendRespond ==
    /\ exitcode = -1
    /\ \E ch \in 1..Len(chans) :
         /\ ~chans[ch].released
         /\ chans[ch].stdin # <<>>
         /\ \E fault \in Faults :
              LET req == chans[ch].stdin
                  id  == SubSeq(req, 1, Len(req) - 1)
              IN /\ HasObject(chans[ch].repo, id) \/ fault = "missing"
                 /\ fault = "short" => Objects(chans[ch].repo)[id[1]].content # <<>>
                 /\ chans' = [chans EXCEPT ![ch].stdin = <<>>,
                                           ![ch].stdout = @ \o Response(chans[ch].repo, req, fault)]
                 /\ lastfault' = fault
    /\ UNCHANGED <<main, stack, exc, exitcode, csum, stats, chlog, nreq, retval, repoVars, sideVars>>

\* lines 228-245 and 259-274: the response is read, the object is fed to the hash
ChecksumObjectRead ==
    /\ Running("checksum_object", "read")
    /\ chans[Top.ch].stdin = <<>>
    /\ LET r == GetObject(chans[Top.ch].stdout)
           c == ChecksumFetched([csum |-> csum, stats |-> stats], r)
       IN /\ chans' = [chans EXCEPT ![Top.ch].stdout = r.rest]
          /\ IF r.err # ""
             THEN exc' = r.err /\ UNCHANGED <<csum, stats, stack, retval>>
             ELSE /\ csum' = c.acc.csum
                  /\ stats' = c.acc.stats
                  /\ IF c.err # ""
                     THEN exc' = c.err /\ UNCHANGED <<stack, retval>>
                     ELSE exc' = exc /\ stack' = Pop /\ retval' = c.tree
    /\ UNCHANGED <<main, exitcode, chlog, nreq, lastfault, repoVars, sideVars>>

(***************************************************************************)
(* GitProcessor.checksum_tree, lines 276-310.                              *)
(***************************************************************************)
\* line 279
ChecksumTreeObject ==
    /\ Running("checksum_tree", "start")
    /\ stack' = Call([Top EXCEPT !.pc = "ls"], <<ObjectCall(Top)>>)
    /\ UNCHANGED <<main, exc, exitcode, walkVars, repoVars, sideVars>>

\* lines 281-290: `git ls-tree` lists the entries, or fails after some of them
\* (one listing at a time: none fails while a failed one is still being read)
ChecksumTreeList ==
    /\ Running("checksum_tree", "ls")
    /\ LET all == Listing(Top.repo, Top.id)
       IN \E rc \in {0, 1}, n \in 0..Len(all) :
            /\ rc = 0 => n = Len(all)
            /\ rc = 1 => \A i \in 1..Len(stack) : stack[i].rc = 0
            /\ stack' = Call([Top EXCEPT !.pc = "loop", !.entries = SubSeq(all, 1, n),
                                         !.rc = rc, !.idx = 1], <<>>)
    /\ UNCHANGED <<main, exc, exitcode, walkVars, repoVars, sideVars>>

\* lines 292-306: one entry of the listing
ChecksumTreeEntry ==
    /\ Running("checksum_tree", "loop")
    /\ Top.idx <= Len(Top.entries)
    /\ LET e     == Top.entries[Top.idx]
           next  == [Top EXCEPT !.idx = @ + 1]
           child == Join(Top.path, Rel(<<e.name>>))
       IN CASE e.type = "blob" ->
                 /\ stack' = Call(next, <<Frame("checksum_object", "write",
                                                Top.repo, Top.path, Top.ch, e.id)>>)
                 /\ UNCHANGED <<exc, chans, chlog>>
            [] e.type = "tree" ->
                 /\ stack' = Call(next, <<Frame("checksum_tree", "start",
                                                Top.repo, child, Top.ch, e.id)>>)
                 /\ UNCHANGED <<exc, chans, chlog>>
            [] e.type = "commit" ->
                 LET subrepo == Join(Join(Top.repo, Top.path), Rel(<<e.name>>))
                     ch      == Len(chans) + 1
                 IN /\ chans' = Append(chans, Channel(subrepo))
                    /\ chlog' = Append(chlog, <<"open", ch>>)
                    /\ stack' = Call(next, <<Frame("with", "body", subrepo, child, ch, <<>>),
                                             Frame("checksum_repo", "start", subrepo, child, ch, e.id)>>)
                    /\ exc' = exc
            [] OTHER ->
                 /\ exc' = "UnknownType"
                 /\ UNCHANGED <<stack, chans, chlog>>
    /\ UNCHANGED <<main, exitcode, csum, stats, nreq, lastfault, retval, repoVars, sideVars>>

\* lines 308-310: the listing has ended, its exit status is checked
ChecksumTreeWait ==
    /\ Running("checksum_tree", "loop")
    /\ Top.idx > Len(Top.entries)
    /\ IF Top.rc # 0
       THEN exc' = "LsTreeFailed" /\ UNCHANGED <<stack, retval>>
       ELSE exc' = exc /\ stack' = Pop /\ retval' = None
    /\ UNCHANGED <<main, exitcode, csum, stats, chans, chlog, nreq, lastfault, repoVars, sideVars>>

(***************************************************************************)
(* The end of a `with GitBatchProcessor(...)` block and the propagation of *)
(* an exception through the stack.                                         *)
(***************************************************************************)
\* what propagates when __exit__ returns True for the exception it was given
PropagatedSuppressed(e, rc) == IF rc # 0 THEN "BatchFailed" ELSE NoExc

\* lines 216-219 and the implicit `return None` of __exit__: what propagates
\* out of the block entered with exception e (NoExc for none) once the
\* process has exited with status rc
Propagated(e, rc) == IF rc # 0 THEN "BatchFailed" ELSE e

\* the body of the block has returned
WithExit ==
    /\ Running("with", "body")
    /\ \E rc \in {0, 1} :
         /\ chans' = Released(chans, Top.ch)
         /\ chlog' = ReleaseLog(chlog, Top.ch)
         /\ exc' = Propagated(NoExc, rc)
    /\ stack' = Pop
    /\ UNCHANGED <<main, exitcode, csum, stats, nreq, lastfault, retval, repoVars, sideVars>>

\* the innermost frame that acts on an exception passing through it: a
\* `with` block, or main, which it ends
Handler == CHOOSE i \in 1..Len(stack) :
              /\ stack[i].fn \in {"with", "main"}
              /\ \A j \in (i + 1)..Len(stack) : stack[j].fn \notin {"with", "main"}

\* an exception leaves the calls up to and including the innermost `with`
\* block, which runs __exit__; when it leaves main the process ends with status 1
Unwind ==
    /\ exc # NoExc
    /\ exitcode = -1
    /\ stack # <<>>
    /\ stack' = SubSeq(stack, 1, Handler - 1)
    /\ IF stack[Handler].fn = "with"
       THEN \E rc \in {0, 1} :
              /\ chans' = Released(chans, stack[Handler].ch)
              /\ chlog' = ReleaseLog(chlog, stack[Handler].ch)
              /\ exc' = Propagated(exc, rc)
              /\ exitcode' = exitcode
       ELSE /\ exitcode' = 1
            /\ UNCHANGED <<chans, chlog, exc>>
    /\ UNCHANGED <<main, csum, stats, nreq, lastfault, retval, repoVars, sideVars>>

(***************************************************************************)
(* main, lines 450-474, with sign_tree_checksum and verify_tag.            *)
(***************************************************************************)
\* f"Git-EVTag-v0-SHA512: {calc_evtag_csum}", line 453
DigestLine(calc_evtag_csum) == Prefix \o calc_evtag_csum

\* lines 452-453 and 474
MainPrint ==
    /\ Running("main", "emit")
    /\ args.mode = "print"
    /\ LET calc == GetDigest(csum)
       IN /\ main' = [main EXCEPT !.calc_evtag_csum = calc]
          /\ out' = DigestLine(calc)
          /\ emitted' = emitted \cup {[commit |-> main.resolved_commit, line |-> DigestLine(calc),
                                       rev |-> args.rev]}
    /\ exitcode' = 0
    /\ stack' = <<>>
    /\ UNCHANGED <<head, tags, run, args, codec, exc, walkVars, verdict, tagcmds, msgreads>>

\* a tag check that never finds the tag
TagNeverExists(tag) == FALSE

\* lines 102-110: `git rev-parse refs/tags/<tag>` exits 0
TagExists(tag) == tag \in DOMAIN tags

\* lines 454-465 and sign_tree_checksum, lines 95-144
MainSign ==
    /\ Running("main", "emit")
    /\ args.mode = "sign"
    /\ main' = [main EXCEPT !.calc_evtag_csum = GetDigest(csum)]
    /\ IF TagExists(args.tag)
       THEN /\ exc' = "TagExists"
            /\ UNCHANGED <<tags, tagcmds, msgreads, exitcode, stack>>
       ELSE \E edited \in SignMsgs :
              LET given   == args.tag_message # <<>>
                  message == IF given THEN args.tag_message
                             ELSE IF args.tag_message_file.some THEN args.tag_message_file.val
                             ELSE edited
                  entry   == [target |-> head, message |-> FinalMsg(message, GetDigest(csum))]
              IN /\ msgreads' = IF given THEN msgreads ELSE msgreads + 1
                 /\ tagcmds' = tagcmds + 1
                 /\ tags' = [t \in DOMAIN tags \cup {args.tag} |->
                                IF t = args.tag THEN entry ELSE tags[t]]
                 /\ exitcode' = 0
                 /\ stack' = <<>>
                 /\ exc' = exc
    /\ UNCHANGED <<head, run, emitted, args, codec, walkVars, out, verdict>>

\* a verification that is content with either check
VerifyTagEither(tag_evtag_csum, calc_evtag_csum, tag_sig) ==
    LET matched == tag_evtag_csum = calc_evtag_csum
    IN [ret |-> matched \/ tag_sig,
        log |-> IF matched \/ tag_sig THEN "checksum and signature verified"
                ELSE "checksum and signature failed"]

\* verify_tag, lines 320-357: what it returns and what it logs
VerifyTag(tag_evtag_csum, calc_evtag_csum, tag_sig) ==
    LET matched == tag_evtag_csum = calc_evtag_csum
    IN IF matched /\ tag_sig
       THEN [ret |-> TRUE, log |-> "checksum and signature verified"]
       ELSE [ret |-> FALSE,
             log |-> IF matched /\ ~tag_sig THEN "checksum verified, signature failed"
                     ELSE IF tag_sig /\ ~matched THEN "signature verified, checksum failed"
                     ELSE "checksum and signature failed"]

\* lines 466-474; the signature check of `git tag -v` is the input tag_sig
MainVerify ==
    /\ Running("main", "emit")
    /\ args.mode = "verify"
    /\ \E tag_sig \in BOOLEAN :
         LET calc == GetDigest(csum)
             v    == VerifyTag(main.tag_evtag_csum.val, calc, tag_sig)
         IN /\ main' = [main EXCEPT !.calc_evtag_csum = calc, !.sig = tag_sig]
            /\ verdict' = v.log
            /\ exitcode' = IF ~v.ret THEN 1 ELSE 0
    /\ stack' = <<>>
    /\ UNCHANGED <<head, tags, run, emitted, args, codec, exc, walkVars, out, tagcmds, msgreads>>

\* no command line: no process is running
NoArgs == Args("none", "", "", <<>>, NoFile)

\* the process has ended: its memory, its pipes and its streams are gone
ProcessEnd ==
    /\ exitcode # -1
    /\ args # NoArgs
    /\ args' = NoArgs
    /\ main' = NewMain
    /\ stack' = <<>>
    /\ exc' = NoExc
    /\ retval' = None
    /\ csum' = <<>>
    /\ stats' = NewStats
    /\ chans' = <<>>
    /\ chlog' = <<>>
    /\ nreq' = 0
    /\ lastfault' = "ok"
    /\ out' = <<>>
    /\ exitcode' = 0
    /\ verdict' = ""
    /\ tagcmds' = 0
    /\ msgreads' = 0
    /\ UNCHANGED <<head, tags, run, emitted, codec>>

\* the next invocation, possibly after a checkout
NextRun ==
    /\ args = NoArgs
    /\ run < MaxRuns
    /\ run' = run + 1
    /\ head' \in HeadChoices
    /\ args' \in ArgSet
    /\ stack' = <<MainFrame("start")>>
    /\ exitcode' = -1
    /\ UNCHANGED <<tags, emitted, codec, main, exc, walkVars, sideVars>>

Next ==
    \/ MainResolve
    \/ MainChecksum
    \/ ChecksumRepoObject
    \/ ChecksumRepoTree
    \/ ChecksumRepoReturn
    \/ ChecksumObjectWrite
    \/ BackendRespond
    \/ ChecksumObjectRead
    \/ ChecksumTreeObject
    \/ ChecksumTreeList
    \/ ChecksumTreeEntry
    \/ ChecksumTreeWait
    \/ WithExit
    \/ Unwind
    \/ MainPrint
    \/ MainSign
    \/ MainVerify
    \/ ProcessEnd
    \/ NextRun

Spec == Init /\ [][Next]_vars

(***************************************************************************)
(* The codec on its own: every base message up to MaxMsgLen characters.    *)
(***************************************************************************)
Alphabet == {FOOTER, SP, LF, "x"}

Messages == UNION {[1..n -> Alphabet] : n \in 0..MaxMsgLen}

Digests == {<<"d">>, <<"0", "d">>}

CodecInit ==
    /\ head = "c1"
    /\ tags = InitTags
    /\ run = 1
    /\ emitted = {}
    /\ args = Args("sign", "", "v2", <<>>, NoFile)
    /\ Fresh
    /\ \E m \in Messages, d \in Digests :
         codec = [IdleCodec EXCEPT !.pc = "message", !.message = m, !.in_csum = d]

\* sign_tree_checksum, lines 134-137
CodecEmbed ==
    /\ codec.pc = "message"
    /\ codec' = [codec EXCEPT !.pc = "tagged",
                              !.final_msg = FinalMsg(codec.message, codec.in_csum)]
    /\ UNCHANGED <<head, tags, run, emitted, args, main, stack, exc, exitcode, walkVars, sideVars>>

\* extract_checksum_from_tag, lines 87-90, on the message of the tag made
CodecExtract ==
    /\ codec.pc = "tagged"
    /\ codec' = [codec EXCEPT !.pc = "read", !.extracted = ExtractChecksum(codec.final_msg)]
    /\ UNCHANGED <<head, tags, run, emitted, args, main, stack, exc, exitcode, walkVars, sideVars>>

CodecNext == CodecEmbed \/ CodecExtract

CodecSpec == CodecInit /\ [][CodecNext]_vars

(***************************************************************************)
(* The object graph read directly from the store: what a depth-first       *)
(* pre-order walk of it is to feed the hash.                               *)
(***************************************************************************)
\* one frame: "<kind> <length>\0" and the content
ObjectFrame(o) == Ascii(o.kind) \o <<SP>> \o Dec(Len(o.content)) \o <<NUL>> \o o.content

RECURSIVE RepoStream(_, _)
RECURSIVE TreeStream(_, _, _)
RECURSIVE EntriesStream(_, _, _)

\* the commit `id` of the repository at `repo`, then its tree
RepoStream(repo, id) ==
    LET o == Objects(repo)[id[1]]
    IN ObjectFrame(o) \o TreeStream(repo, repo, <<o.content[6]>>)

\* the tree `id`, found at directory `dir`, then its entries in listing order
TreeStream(repo, dir, id) ==
    ObjectFrame(Objects(repo)[id[1]]) \o EntriesStream(repo, dir, Listing(repo, id))

EntriesStream(repo, dir, es) ==
    IF es = <<>> THEN <<>>
    ELSE LET e   == Head(es)
             sub == Abs(dir.parts \o <<e.name>>)
             one == CASE e.type = "blob"   -> ObjectFrame(Objects(repo)[e.id[1]])
                      [] e.type = "tree"   -> TreeStream(repo, sub, e.id)
                      [] e.type = "commit" -> RepoStream(sub, e.id)
         IN one \o EntriesStream(repo, dir, Tail(es))

IsSuffix(t, s) == Len(t) <= Len(s) /\ SubSeq(s, Len(s) - Len(t) + 1, Len(s)) = t

\* the body of a `with` block has returned without an exception
BodyReturned == /\ exitcode = -1
                /\ exc = NoExc
                /\ stack # <<>>
                /\ Top.fn = "with"

\* C1: when checksum_repo has returned successfully, the bytes fed to the
\* hash are the depth-first pre-order concatenation of one frame per visit:
\* for the root commit the whole stream, for a sub-repository entry the end
\* of the stream is that sub-repository's own complete stream.
C1_PreOrderStream ==
    BodyReturned =>
        IF Len(stack) = 2
        THEN csum = RepoStream(ROOT, <<main.resolved_commit>>)
        ELSE LET parent == stack[Len(stack) - 1]
                 e      == parent.entries[parent.idx - 1]
             IN IsSuffix(RepoStream(chans[Top.ch].repo, e.id), csum)

C1_Witness ==
    /\ BodyReturned
    /\ Len(stack) = 2
    /\ main.resolved_commit = "c1"
    /\ Len(chans) = 3
    /\ stats["blob"] = 5

EventsOf(ch) == SelectSeq(chlog, LAMBDA ev : ev[2] = ch)

PosOf(op, ch) == CHOOSE i \in 1..Len(chlog) : chlog[i] = <<op, ch>>

\* the channels owned by the `with` blocks that are active
Owned == {stack[i].ch : i \in {j \in 1..Len(stack) : stack[j].fn = "with"}}

\* C3: a channel is open exactly while the `with` block that owns it is
\* active, on every path; its release is close, wait, check, once; a channel
\* opened inside another's lifetime is released before it; none is open when
\* the invocation has ended.
C3_ChannelsReleased ==
    /\ \A ch \in 1..Len(chans) :
          /\ EventsOf(ch) = IF chans[ch].released
                            THEN <<<<"open", ch>>, <<"close", ch>>, <<"wait", ch>>, <<"check", ch>>>>
                            ELSE <<<<"open", ch>>>>
          /\ ~chans[ch].released <=> ch \in Owned
    /\ \A c1, c2 \in 1..Len(chans) :
          (c1 < c2 /\ chans[c1].released /\ PosOf("open", c2) < PosOf("close", c1))
             => (chans[c2].released /\ PosOf("check", c2) < PosOf("close", c1))
    /\ exitcode # -1 => \A ch \in 1..Len(chans) : chans[ch].released

\* an error raised with three channels open, one inside the other
C3_Witness ==
    /\ exitcode = 1
    /\ exc = "ShortRead"
    /\ Len(chans) = 3
    /\ \A ch \in 1..3 : chans[ch].released
    /\ PosOf("close", 3) < PosOf("close", 2)
    /\ PosOf("close", 2) < PosOf("close", 1)

\* C4: under --verify the process exits 0 exactly when the stored digest
\* equals the computed one and the signature is valid; each other
\* combination logs its own failure and exits 1; no footer exits 1.
C4_FourWayVerify ==
    (exitcode # -1 /\ args.mode = "verify" /\ exc = NoExc) =>
        IF ~Truthy(main.tag_evtag_csum)
        THEN exitcode = 1 /\ verdict = "" /\ nreq = 0
        ELSE LET matched == main.tag_evtag_csum.val = GetDigest(csum)
             IN /\ exitcode = IF matched /\ main.sig THEN 0 ELSE 1
                /\ verdict = CASE matched /\ main.sig   -> "checksum and signature verified"
                               [] matched /\ ~main.sig  -> "checksum verified, signature failed"
                               [] ~matched /\ main.sig  -> "signature verified, checksum failed"
                               [] OTHER                 -> "checksum and signature failed"

\* a tag made by --sign in one invocation verifies in the next
C4_Witness ==
    /\ exitcode = 0
    /\ args.mode = "verify"
    /\ args.tag = "v2"
    /\ main.sig
    /\ main.tag_evtag_csum.val = GetDigest(csum)
    /\ verdict = "checksum and signature verified"

\* C5: the footer scan of the message sign_tree_checksum builds from any
\* base message and digest returns that digest.
C5_RoundTrip ==
    codec.pc = "read" => codec.extracted = Some(codec.in_csum)

\* a base message with an indented footer line and text after it
C5_Witness ==
    /\ codec.pc = "read"
    /\ codec.message = <<SP, FOOTER, SP, "x", LF, "x">>
    /\ codec.extracted = Some(codec.in_csum)

\* C6: when the backend's response is defective, reading it raises a fetch
\* error and leaves the hash input and every counter as they were.
C6_FetchFailureFeedsNothing ==
    [][(Running("checksum_object", "read") /\ chans[Top.ch].stdin = <<>> /\ lastfault # "ok") =>
          /\ exc' \in FetchErrors
          /\ csum' = csum
          /\ stats' = stats
          /\ stack' = stack]_vars

\* a short read in a sub-repository, after other objects were fed
C6_Witness ==
    /\ exc = "ShortRead"
    /\ lastfault = "short"
    /\ stack # <<>>
    /\ Top.fn = "checksum_object"
    /\ Top.ch = 2
    /\ stats["blob"] = 2

\* C7: sign_tree_checksum on a tag name that is bound raises, and the tag
\* store, the tag commands issued and the messages read stay as they were.
C7_TagCollision ==
    [][(Running("main", "emit") /\ args.mode = "sign" /\ args.tag \in DOMAIN tags) =>
          /\ exc' = "TagExists"
          /\ tags' = tags
          /\ tagcmds' = tagcmds
          /\ msgreads' = msgreads
          /\ exitcode' = -1]_vars

\* the collision with the editor as the message source
C7_Witness ==
    /\ exc = "TagExists"
    /\ exitcode = 1
    /\ args.tag_message = <<>>
    /\ ~args.tag_message_file.some
    /\ tags = InitTags
    /\ tagcmds = 0
    /\ msgreads = 0

\* C8: the digest lines printed for one resolved commit are all the same
\* line, whatever --rev was given and whatever was checked out.
C8_Deterministic ==
    /\ \A e1, e2 \in emitted : e1.commit = e2.commit => e1.line = e2.line
    /\ \A e \in emitted : StartsWith(e.line, Prefix)
    /\ out # <<>> => [commit |-> main.resolved_commit, line |-> out, rev |-> args.rev] \in emitted

\* no --rev with HEAD at c1, then --rev c1 with c5 checked out
C8_Witness ==
    /\ exitcode = 0
    /\ args.mode = "print"
    /\ args.rev = "c1"
    /\ head = "c5"
    /\ \E e1, e2 \in emitted :
          /\ e1.commit = "c1" /\ e1.rev = ""
          /\ e2.commit = "c1" /\ e2.rev = "c1"
          /\ e2.line = out

Pending(ch) == chans[ch].stdin # <<>> \/ chans[ch].stdout # <<>>

InGetObject == /\ stack # <<>>
               /\ Top.fn = "checksum_object"
               /\ Top.pc = "read"

\* C9: at most one request is outstanding over all channels, it is one
\* request line, and outside get_object no byte of any request or response
\* is left in a pipe: the next byte read is the first of the next header.
C9_Alternation ==
    /\ Cardinality({ch \in 1..Len(chans) : Pending(ch)}) <= 1
    /\ \A ch \in 1..Len(chans) :
          chans[ch].stdin # <<>> =>
             /\ chans[ch].stdout = <<>>
             /\ IndexOf(chans[ch].stdin, LF) = Len(chans[ch].stdin)
    /\ exc = NoExc =>
          \A ch \in 1..Len(chans) : Pending(ch) => (InGetObject /\ Top.ch = ch)

\* the sixth request is about to be written, on the second channel
C9_Witness ==
    /\ exc = NoExc
    /\ stack # <<>>
    /\ Top.fn = "checksum_object"
    /\ Top.pc = "write"
    /\ Top.ch = 2
    /\ nreq = 5
    /\ \A ch \in 1..Len(chans) : ~Pending(ch)

RECURSIVE JoinLines(_)
JoinLines(lines) == IF lines = <<>> THEN <<>>
                    ELSE IF Len(lines) = 1 THEN lines[1]
                    ELSE lines[1] \o <<LF>> \o JoinLines(Tail(lines))

\* the lines of a message that are no footer lines: a footer line is the
\* prefix "Git-EVTag-v0-SHA512: ", after any leading whitespace, and the rest
NonFooterLines(message) ==
    SelectSeq(SplitLines(message), LAMBDA line : ~StartsWith(LStrip(line), Prefix))

\* every occurrence of the prefix in the message begins a footer line
FootersAreLines(message) ==
    \A i \in 1..Len(SplitLines(message)) :
        LET line == SplitLines(message)[i]
        IN Contains(line, Prefix) => StartsWith(LStrip(line), Prefix)

\* C10: the message built is the base message's non-footer lines, all kept
\* in order (up to trailing whitespace), then a blank line, then the footer;
\* stated for the base messages whose prefix occurrences all begin a line.
C10_OnlyFooterLinesRemoved ==
    (codec.pc = "tagged" /\ FootersAreLines(codec.message)) =>
        codec.final_msg = RStrip(JoinLines(NonFooterLines(codec.message)))
                             \o <<LF, LF>> \o Prefix \o codec.in_csum \o <<LF>>

====
